---- MODULE Spec2Model ----
(***************************************************************************)
(* Model of the keypad driver: the scan engine (Keypad::scan), the         *)
(* cooperative stop (Keypad::stop), the lock gate, the two callback slots  *)
(* and the layout table.  Array indices are 0-based as in the source; an   *)
(* index outside an array's range panics, as Rust's bounds check does.     *)
(***************************************************************************)
EXTENDS Integers, Naturals, Sequences, FiniteSets, TLC

\* ------------------------------------------------------------------ bounds

\* scan() calls the scanning threads make, all together
MaxScans == 2
\* stop() calls the stopping thread makes
MaxStops == 1

\* ------------------------------------------------------------- layout.rs

\* const LAYOUT: [[[u8; 3]; 4]; 2], as ASCII codes; LAYOUT[pad+1][row+1][col+1]
LAYOUT ==
  << << <<65, 66, 67>>, <<68, 69, 70>>, <<71, 72, 73>>, <<74, 75, 76>> >>,
     << <<49, 50, 51>>, <<52, 53, 54>>, <<55, 56, 57>>, <<42, 48, 35>> >> >>

\* what an out-of-range array index yields: the panic "index out of bounds",
\* never a u8
OutOfRange == -1

NumPads == Len(LAYOUT)
NumRows == Len(LAYOUT[1])
NumCols == Len(LAYOUT[1][1])

InRange(pad, row, column) ==
  /\ pad \in 0 .. NumPads - 1
  /\ row \in 0 .. NumRows - 1
  /\ column \in 0 .. NumCols - 1

\* the image of the layout table: the 24 symbols
Symbols ==
  { LAYOUT[p][r][c] : p \in 1 .. NumPads, r \in 1 .. NumRows, c \in 1 .. NumCols }

\* Symbol::is_power
is_power(chr) == chr = 74

\* a faulty translate: the table read with row and column swapped, each
\* wrapped to the other's length
translate_colrow(pad, row, column) ==
  IF InRange(pad, row, column)
    THEN LAYOUT[pad + 1][(column % NumRows) + 1][(row % NumCols) + 1]
    ELSE OutOfRange

\* pub fn translate(pad, row, column) -> Symbol
translate(pad, row, column) ==
  IF InRange(pad, row, column) THEN LAYOUT[pad + 1][row + 1][column + 1]
  ELSE OutOfRange

\* ---------------------------------------------------------------- lib.rs

\* enum Lock
Locks == {"Locked", "Unlocked", "UnlockedPowerOnly"}

\* --------------------------------------------------------------- keypad.rs

\* const ROWS: [(usize, usize); 8]: drive line -> (pad, row); ROWS[scanrow+1]
ROWS ==
  << <<1, 1>>, <<1, 4>>, <<1, 3>>, <<2, 2>>, <<2, 1>>, <<2, 4>>, <<2, 3>>, <<1, 2>> >>

\* const COLS: [usize; 3]: input position -> column; COLS[i+1]
COLS == <<2, 1, 3>>

NumLines == Len(ROWS)
NumInputs == Len(COLS)

\* the bits of the input byte holding the three columns: 1 << 1, 1 << 4, 1 << 7
InputBits == <<1, 4, 7>>

\* byte & (1 << b) == 0
BitClear(byte, b) == (byte \div (2 ^ b)) % 2 = 0

\* let input = [byte & (1 << 1) == 0, ...]; element i (0-based)
Input(byte, i) == BitClear(byte, InputBits[i + 1])

\* let m = !(1u8 << scanrow)
Mask(scanrow) == 255 - (2 ^ scanrow)

\* a faulty is_locked: the gate is always open
is_locked_never(lock, chr) == FALSE

\* a faulty is_locked: UnlockedPowerOnly lets every symbol through
is_locked_open(lock, chr) == lock = "Locked"

\* fn is_locked(&self, chr): the match on lock_state
is_locked(lock, chr) ==
  CASE lock = "Unlocked" -> FALSE
    [] lock = "UnlockedPowerOnly" /\ is_power(chr) -> FALSE
    [] OTHER -> TRUE

\* ------------------------------------------------------------------ state

\* threads that call scan() (keypad_run), and the thread that calls stop()
Scanners == {"s1", "s2"}
Stopper == "st"
Host == "host"
Threads == Scanners \cup {Stopper}
NoThread == "none"

\* Option<Box<dyn FnMut(Symbol)>>: None, or one of two host callbacks
None == "None"
Callbacks == {"cbA", "cbB"}

\* the two callback slots, by the event they deliver
Kinds == {"press", "release"}

\* the input bytes the bus hands back: no key, one column each, all three
Bytes == {255, 253, 239, 127, 109}

VARIABLES
  devOwner,     \* dev: Mutex<LinuxI2CDevice>: the thread holding the guard
  devPoisoned,  \* dev: the mutex's poison flag (a holder panicked)
  lock_state,   \* lock_state: AtomicLock
  on_pressed,   \* on_pressed: Mutex<Option<Box<..>>>
  on_released,  \* on_released: Mutex<Option<Box<..>>>
  stop,         \* stop: AtomicBool
  slotOwner,    \* the thread holding on_pressed's / on_released's mutex
  pc,           \* each thread's position in scan() / stop()
  matrix,       \* scan(): let mut matrix, per scanning thread
  scanrow,      \* scan(): the for loop's drive line, per scanning thread
  col,          \* scan(): the inner loop's i, per scanning thread
  byte,         \* scan(): the byte read, per scanning thread
  chr,          \* scan(): the symbol of the transition being dispatched
  result,       \* how each thread's last call ended
  calls,        \* calls made so far, per thread
  events,       \* the callback invocations so far, in order
  stopAt,       \* per scanning thread: where in scan() it stood when stop was set:
                \* in the priming (or at the loop head), or in a line's iteration
  blocked,      \* per scanning thread: symbols whose press the gate refused
  quietCall,    \* per scanning thread: stop() returned and it entered no scan() since
  quietAcq,     \* per scanning thread: stop() returned and it took the bus not since
  probe,        \* the pure functions' argument and result (PureSpec only)
  shim          \* lib.rs: whether the handle's driver is Some, what get_lock
                \* last returned, the last diagnostic printed

vars ==
  << devOwner, devPoisoned, lock_state, on_pressed, on_released, stop, slotOwner, pc,
     matrix, scanrow, col, byte, chr, result, calls, events, stopAt, blocked,
     quietCall, quietAcq, probe, shim >>

driver ==
  << devOwner, devPoisoned, lock_state, on_pressed, on_released, stop, slotOwner >>
locals == << matrix, scanrow, col, byte, chr >>
ghost == << events, stopAt, blocked, quietCall, quietAcq >>

\* a faulty initial matrix: the key at [0][0][0] starts latched
DefaultMatrix_latched ==
  [p \in 0 .. NumPads - 1 |->
    [r \in 0 .. NumRows - 1 |-> [c \in 0 .. NumCols - 1 |-> p + r + c = 0]]]

\* let mut matrix: [[[bool; 3]; 4]; 2] = Default::default()
DefaultMatrix ==
  [p \in 0 .. NumPads - 1 |->
    [r \in 0 .. NumRows - 1 |-> [c \in 0 .. NumCols - 1 |-> FALSE]]]

\* the stop flag was not set during this scan() call
NoStop == [at |-> "none", line |-> 0]

\* Keypad::open: the driver as constructed, no thread inside a call
InitDriver ==
  /\ devOwner = NoThread
  /\ devPoisoned = FALSE
  /\ lock_state = "Unlocked"
  /\ on_pressed = None
  /\ on_released = None
  /\ stop = FALSE
  /\ slotOwner = [k \in Kinds |-> NoThread]
  /\ pc = [t \in Threads |-> "idle"]
  /\ matrix = [t \in Scanners |-> DefaultMatrix]
  /\ scanrow = [t \in Scanners |-> 0]
  /\ col = [t \in Scanners |-> 0]
  /\ byte = [t \in Scanners |-> 255]
  /\ chr = [t \in Scanners |-> 0]
  /\ result = [t \in Threads |-> "none"]
  /\ calls = [t \in Threads |-> 0]
  /\ events = << >>
  /\ stopAt = [t \in Scanners |-> NoStop]
  /\ blocked = [t \in Scanners |-> {}]
  /\ quietCall = [t \in Scanners |-> FALSE]
  /\ quietAcq = [t \in Scanners |-> FALSE]

\* no pure function under test
NoProbe ==
  [fn |-> "none", lock |-> "Locked", sym |-> 0, pad |-> 0, row |-> 0,
   column |-> 0, line |-> 0, input |-> 0, mask |-> 0,
   done |-> FALSE, panic |-> FALSE, flag |-> FALSE, val |-> 0]

\* the handle after keypad_new (driver: None) or after a keypad_init that
\* succeeded (driver: Some)
Handle(some) == [init |-> some, got |-> "none", diag |-> "none"]

\* keypad_new and a successful keypad_init: Keypad::open has built the driver
Init == InitDriver /\ probe = NoProbe /\ shim = Handle(TRUE)

\* ---------------------------------------------------------- scan(): steps

\* positions inside a callback that scan() is calling: in the callback's own
\* code, inside a stop() it called (before the lock, before the drop), inside
\* a set_on_pressed / set_on_released it called
CallbackPcs == {"incb", "in_stop", "in_drop", "in_setP", "in_setR"}

\* the write_reg statements of scan(), in program order: the five of the
\* priming, the two that drive a line, the four of the recharge
WritePcs == {"P1", "P2", "P3", "P4", "P5", "D1", "D2", "R1", "R2", "R3", "R4"}

\* positions at which the thread is inside one drive line's iteration
LinePcs ==
  {"D1", "D2", "read", "col", "cbP", "cbR", "R1", "R2", "R3", "R4"} \cup CallbackPcs

\* positions at which the thread holds the bus guard
BusPcs == WritePcs \cup {"clear", "check", "read", "col", "cbP", "cbR"} \cup CallbackPcs

\* the statement after a successful write_reg
AfterWrite(t) ==
  CASE pc[t] = "P1" -> "P2"
    [] pc[t] = "P2" -> "P3"
    [] pc[t] = "P3" -> "P4"
    [] pc[t] = "P4" -> "P5"
    [] pc[t] = "P5" -> "check"
    [] pc[t] = "D1" -> "D2"
    [] pc[t] = "D2" -> "read"
    [] pc[t] = "R1" -> "R2"
    [] pc[t] = "R2" -> "R3"
    [] pc[t] = "R3" -> "R4"
    [] pc[t] = "R4" -> IF scanrow[t] + 1 < NumLines THEN "D1" ELSE "check"

\* the position after column i's match arm: the next input, or the recharge
AfterColumn(t) == IF col[t] + 1 < NumInputs THEN "col" ELSE "R1"

\* a faulty return: the result is recorded but the thread stays where it is,
\* guard in hand, and tries the statement again
Return_retry(t, res) ==
  /\ pc' = pc
  /\ result' = [result EXCEPT ![t] = res]
  /\ devOwner' = devOwner

\* the guard is dropped and the call returns res ("ok" or "err")
Return(t, res) ==
  /\ pc' = [pc EXCEPT ![t] = "idle"]
  /\ result' = [result EXCEPT ![t] = res]
  /\ devOwner' = NoThread

\* a panic inside scan(): the thread unwinds, the guard it holds is dropped
\* while panicking, which poisons the mutex
Panic(t, why) ==
  /\ pc' = [pc EXCEPT ![t] = "panicked"]
  /\ result' = [result EXCEPT ![t] = why]
  /\ devOwner' = IF devOwner = t THEN NoThread ELSE devOwner
  /\ devPoisoned' = (devPoisoned \/ devOwner = t)

\* the scan() calls made so far
ScanCalls == calls["s1"] + calls["s2"]

\* scan() is entered: let mut matrix = Default::default()
ScanEnter(t) ==
  /\ pc[t] = "idle"
  /\ ScanCalls < MaxScans
  /\ pc' = [pc EXCEPT ![t] = "lock"]
  /\ calls' = [calls EXCEPT ![t] = @ + 1]
  /\ result' = [result EXCEPT ![t] = "none"]
  /\ matrix' = [matrix EXCEPT ![t] = DefaultMatrix]
  /\ stopAt' = [stopAt EXCEPT ![t] = NoStop]
  /\ blocked' = [blocked EXCEPT ![t] = {}]
  /\ quietCall' = [quietCall EXCEPT ![t] = FALSE]
  /\ UNCHANGED << driver, scanrow, col, byte, chr, events, quietAcq, probe, shim >>

\* a faulty scan(): the guard is taken without waiting for its holder
ScanMayLock_nowait == TRUE

\* self.dev.lock(): the mutex is free
ScanMayLock == devOwner = NoThread

\* let mut dev = self.dev.lock().unwrap(): waits for the mutex; a poisoned
\* mutex makes lock() return Err and unwrap() panic
ScanLock(t) ==
  /\ pc[t] = "lock"
  /\ ScanMayLock
  /\ IF devPoisoned
       THEN /\ Panic(t, "poisoned")
            /\ UNCHANGED quietAcq
       ELSE /\ devOwner' = t
            /\ pc' = [pc EXCEPT ![t] = "clear"]
            /\ quietAcq' = [quietAcq EXCEPT ![t] = FALSE]
            /\ UNCHANGED << devPoisoned, result >>
  /\ UNCHANGED << lock_state, on_pressed, on_released, stop, slotOwner, locals, calls,
                  events, stopAt, blocked, quietCall, probe, shim >>

\* self.stop.store(false, SeqCst)
ScanClearStop(t) ==
  /\ pc[t] = "clear"
  /\ stop' = FALSE
  /\ pc' = [pc EXCEPT ![t] = "P1"]
  /\ UNCHANGED << devOwner, devPoisoned, lock_state, on_pressed, on_released,
                  slotOwner, locals, result, calls, ghost, probe, shim >>

\* dev.write_reg(..)?: one register write of the priming, the line drive or
\* the recharge; a bus error returns Err from scan()
ScanWrite(t) ==
  /\ pc[t] \in WritePcs
  /\ \E ok \in BOOLEAN :
       IF ok
         THEN /\ pc' = [pc EXCEPT ![t] = AfterWrite(t)]
              /\ scanrow' = [scanrow EXCEPT ![t] =
                   IF pc[t] = "R4" /\ @ + 1 < NumLines THEN @ + 1 ELSE @]
              /\ UNCHANGED << devOwner, result >>
         ELSE /\ Return(t, "err")
              /\ UNCHANGED scanrow
  /\ UNCHANGED << devPoisoned, lock_state, on_pressed, on_released, stop, slotOwner,
                  matrix, col, byte, chr, calls, ghost, probe, shim >>

\* while !self.stop.load(SeqCst): the loop head, before line 0 of each pass
ScanCheckStop(t) ==
  /\ pc[t] = "check"
  /\ IF stop
       THEN /\ Return(t, "ok")
            /\ UNCHANGED scanrow
       ELSE /\ pc' = [pc EXCEPT ![t] = "D1"]
            /\ scanrow' = [scanrow EXCEPT ![t] = 0]
            /\ UNCHANGED << devOwner, result >>
  /\ UNCHANGED << devPoisoned, lock_state, on_pressed, on_released, stop, slotOwner,
                  matrix, col, byte, chr, calls, ghost, probe, shim >>

\* the (pad, row) of the line being driven
LinePad(t) == ROWS[scanrow[t] + 1][1]
LineRow(t) == ROWS[scanrow[t] + 1][2]

\* dev.transfer(&mut ops)?, then &mut matrix[*pad][*row]: the byte is read;
\* taking the row of the matrix panics when pad or row is out of range
ScanRead(t) ==
  /\ pc[t] = "read"
  /\ \E ok \in BOOLEAN, b \in Bytes :
       IF ~ok
         THEN /\ Return(t, "err")
              /\ UNCHANGED << devPoisoned, byte, col >>
         ELSE /\ byte' = [byte EXCEPT ![t] = b]
              /\ IF InRange(LinePad(t), LineRow(t), 0)
                   THEN /\ pc' = [pc EXCEPT ![t] = "col"]
                        /\ col' = [col EXCEPT ![t] = 0]
                        /\ UNCHANGED << devOwner, devPoisoned, result >>
                   ELSE /\ Panic(t, "oob")
                        /\ UNCHANGED col
  /\ UNCHANGED << lock_state, on_pressed, on_released, stop, slotOwner, matrix, scanrow,
                  chr, calls, ghost, probe, shim >>

\* let idx = COLS[i]
ColumnIdx(t) == COLS[col[t] + 1]

\* for (i, &pressed) in input.iter().enumerate(): on to the next input, or
\* out of the inner loop to the recharge
NextColumn(t) ==
  /\ pc' = [pc EXCEPT ![t] = AfterColumn(t)]
  /\ col' = [col EXCEPT ![t] = IF @ + 1 < NumInputs THEN @ + 1 ELSE @]

\* match (columns[idx], pressed): one input of the line.  columns[idx]
\* panics when idx is out of range.  (false, true): translate, and unless
\* is_locked, latch and go on to the press callback; (true, false): unlatch
\* and go on to the release callback; otherwise nothing.
ScanColumn(t) ==
  /\ pc[t] = "col"
  /\ LET pad == LinePad(t)
         row == LineRow(t)
         idx == ColumnIdx(t)
         pressed == Input(byte[t], col[t])
     IN  IF ~InRange(pad, row, idx)
           THEN /\ Panic(t, "oob")
                /\ UNCHANGED << matrix, col, chr, blocked >>
           ELSE LET latched == matrix[t][pad][row][idx]
                    sym == translate(pad, row, idx)
                IN  CASE ~latched /\ pressed ->
                           IF ~is_locked(lock_state, sym)
                             THEN /\ matrix' = [matrix EXCEPT ![t][pad][row][idx] = pressed]
                                  /\ chr' = [chr EXCEPT ![t] = sym]
                                  /\ pc' = [pc EXCEPT ![t] = "cbP"]
                                  /\ UNCHANGED << col, blocked, devOwner, devPoisoned, result >>
                             ELSE /\ NextColumn(t)
                                  /\ blocked' = [blocked EXCEPT ![t] = @ \cup {sym}]
                                  /\ UNCHANGED << matrix, chr, devOwner, devPoisoned, result >>
                       [] latched /\ ~pressed ->
                           /\ matrix' = [matrix EXCEPT ![t][pad][row][idx] = pressed]
                           /\ chr' = [chr EXCEPT ![t] = sym]
                           /\ pc' = [pc EXCEPT ![t] = "cbR"]
                           /\ UNCHANGED << col, blocked, devOwner, devPoisoned, result >>
                       [] OTHER ->
                           /\ NextColumn(t)
                           /\ UNCHANGED << matrix, chr, blocked, devOwner, devPoisoned, result >>
  /\ UNCHANGED << lock_state, on_pressed, on_released, stop, slotOwner, scanrow, byte,
                  calls, events, stopAt, quietCall, quietAcq, probe, shim >>

\* one callback invocation, as the host sees it
Event(kind, sym, cb, t) == [kind |-> kind, sym |-> sym, cb |-> cb, by |-> t]

\* a faulty dispatch: the press path reads the release slot and vice versa
Slot_crossed(kind) == IF kind = "press" THEN on_released ELSE on_pressed

\* the callback installed in a slot
Slot(kind) == IF kind = "press" THEN on_pressed ELSE on_released

\* a faulty slot mutex: lock() succeeds whoever holds it
SlotFree_reentrant(kind) == kind \in Kinds

\* a slot's mutex is free
SlotFree(kind) == slotOwner[kind] = NoThread

\* the slot whose guard thread t holds while its callback runs
HeldSlot(t) == CHOOSE k \in Kinds : slotOwner[k] = t

\* if let Some(ref mut cb) = *self.on_pressed.lock().unwrap() { cb(chr) }, and
\* the same on on_released: the slot is locked; with no callback installed
\* the guard is dropped at once, otherwise the callback installed at that
\* moment is called with the symbol, the guard being held while it runs
ScanDispatch(t) ==
  /\ pc[t] \in {"cbP", "cbR"}
  /\ LET kind == IF pc[t] = "cbP" THEN "press" ELSE "release"
     IN  /\ SlotFree(kind)
         /\ IF Slot(kind) = None
              THEN /\ NextColumn(t)
                   /\ UNCHANGED << events, slotOwner >>
              ELSE /\ events' = Append(events, Event(kind, chr[t], Slot(kind), t))
                   /\ slotOwner' = [slotOwner EXCEPT ![kind] = t]
                   /\ pc' = [pc EXCEPT ![t] = "incb"]
                   /\ UNCHANGED col
  /\ UNCHANGED << devOwner, devPoisoned, lock_state, on_pressed, on_released, stop,
                  matrix, scanrow, byte, chr, result, calls, stopAt, blocked,
                  quietCall, quietAcq, probe, shim >>

\* cb(chr) returns: the slot's guard is dropped at the end of the if let
CallbackReturn(t) ==
  /\ pc[t] = "incb"
  /\ slotOwner' = [slotOwner EXCEPT ![HeldSlot(t)] = NoThread]
  /\ NextColumn(t)
  /\ UNCHANGED << devOwner, devPoisoned, lock_state, on_pressed, on_released, stop,
                  matrix, scanrow, byte, chr, result, calls, ghost, probe, shim >>

\* the running callback calls set_on_pressed or set_on_released on the driver
CallbackSet(t) ==
  /\ pc[t] = "incb"
  /\ \E kind \in Kinds :
       pc' = [pc EXCEPT ![t] = IF kind = "press" THEN "in_setP" ELSE "in_setR"]
  /\ UNCHANGED << driver, locals, result, calls, ghost, probe, shim >>

\* ---------------------------------------------------------------- stop()

\* a faulty stop(): the guard is taken without waiting for its holder
StopMayLock_nowait == TRUE

\* self.dev.lock(): the mutex is free
StopMayLock == devOwner = NoThread

\* the callers of stop(): the stopping thread, and a scanning thread whose
\* running callback calls it
StopEntry(th) == IF th = Stopper THEN "idle" ELSE "incb"
StopAtLock(th) == IF th = Stopper THEN "lock" ELSE "in_stop"
StopAtDrop(th) == IF th = Stopper THEN "drop" ELSE "in_drop"

\* self.stop.store(true, SeqCst)
StopStore ==
  \E th \in Threads :
    /\ pc[th] = StopEntry(th)
    /\ th = Stopper => calls[Stopper] < MaxStops
    /\ stop' = TRUE
    /\ pc' = [pc EXCEPT ![th] = StopAtLock(th)]
    /\ calls' = IF th = Stopper THEN [calls EXCEPT ![Stopper] = @ + 1] ELSE calls
    /\ result' = IF th = Stopper THEN [result EXCEPT ![Stopper] = "none"] ELSE result
    /\ stopAt' = [t \in Scanners |->
                    IF pc[t] \in BusPcs
                      THEN [at |-> IF pc[t] \in LinePcs THEN "line" ELSE "prime",
                            line |-> IF pc[t] \in LinePcs THEN scanrow[t] ELSE 0]
                      ELSE stopAt[t]]
    /\ UNCHANGED << devOwner, devPoisoned, lock_state, on_pressed, on_released,
                    slotOwner, locals, events, blocked, quietCall, quietAcq, probe, shim >>

\* let lock = self.dev.lock().unwrap(): waits until the device is released
\* (a caller that holds the device itself waits for ever); panics on a
\* poisoned mutex
StopLock ==
  \E th \in Threads :
    /\ pc[th] = StopAtLock(th)
    /\ StopMayLock
    /\ IF devPoisoned
         THEN /\ pc' = [pc EXCEPT ![th] = "panicked"]
              /\ result' = [result EXCEPT ![th] = "poisoned"]
              /\ UNCHANGED devOwner
         ELSE /\ pc' = [pc EXCEPT ![th] = StopAtDrop(th)]
              /\ devOwner' = th
              /\ UNCHANGED result
    /\ UNCHANGED << devPoisoned, lock_state, on_pressed, on_released, stop, slotOwner,
                    locals, calls, ghost, probe, shim >>

\* drop(lock), and stop() returns
StopDrop ==
  \E th \in Threads :
    /\ pc[th] = StopAtDrop(th)
    /\ devOwner' = IF devOwner = th THEN NoThread ELSE devOwner
    /\ pc' = [pc EXCEPT ![th] = StopEntry(th)]
    /\ result' = IF th = Stopper THEN [result EXCEPT ![Stopper] = "ok"] ELSE result
    /\ quietCall' = [t \in Scanners |-> TRUE]
    /\ quietAcq' = [t \in Scanners |-> TRUE]
    /\ UNCHANGED << devPoisoned, lock_state, on_pressed, on_released, stop, slotOwner,
                    locals, calls, events, stopAt, blocked, probe, shim >>

\* ------------------------------------------------- lock and callback slots

\* set_lock: self.lock_state.store(lock, Relaxed)
SetLock(lock) ==
  /\ lock_state' = lock
  /\ UNCHANGED << devOwner, devPoisoned, on_pressed, on_released, stop, slotOwner, pc,
                  locals, result, calls, ghost, probe, shim >>

\* the callers of set_on_pressed / set_on_released: the host, and a scanning
\* thread whose running callback calls it
SetCallers(kind) ==
  {Host} \cup {t \in Scanners : pc[t] = IF kind = "press" THEN "in_setP" ELSE "in_setR"}

\* the caller is back from the set call
AfterSet(th) == IF th = Host THEN pc ELSE [pc EXCEPT ![th] = "incb"]

\* set_on_pressed: *self.on_pressed.lock().unwrap() = Some(cb); lock() waits
\* for the slot's mutex (a caller that holds it itself waits for ever)
SetOnPressed(cb) ==
  \E th \in SetCallers("press") :
    /\ SlotFree("press")
    /\ on_pressed' = cb
    /\ pc' = AfterSet(th)
    /\ UNCHANGED << devOwner, devPoisoned, lock_state, on_released, stop, slotOwner,
                    locals, result, calls, ghost, probe, shim >>

\* set_on_released: *self.on_released.lock().unwrap() = Some(cb)
SetOnReleased(cb) ==
  \E th \in SetCallers("release") :
    /\ SlotFree("release")
    /\ on_released' = cb
    /\ pc' = AfterSet(th)
    /\ UNCHANGED << devOwner, devPoisoned, lock_state, on_pressed, stop, slotOwner,
                    locals, result, calls, ghost, probe, shim >>

\* ------------------------------------------------------------ the program

ScanStep(t) ==
  \/ ScanEnter(t)
  \/ ScanLock(t)
  \/ ScanClearStop(t)
  \/ ScanWrite(t)
  \/ ScanCheckStop(t)
  \/ ScanRead(t)
  \/ ScanColumn(t)
  \/ ScanDispatch(t)
  \/ CallbackReturn(t)
  \/ CallbackSet(t)

StopStep == StopStore \/ StopLock \/ StopDrop

HostStep ==
  \/ \E lock \in Locks : SetLock(lock)
  \/ \E cb \in Callbacks : SetOnPressed(cb)
  \/ \E cb \in Callbacks : SetOnReleased(cb)

Next ==
  \/ \E t \in Scanners : ScanStep(t)
  \/ StopStep
  \/ HostStep

Spec == Init /\ [][Next]_vars

\* ------------------------------------------------------- lib.rs: the shim

\* the threads that call keypad_run on the handle
RunThreads == {"s1"}

\* keypad_new: driver: None, no driver exists yet; the driver's fields stand
\* as Keypad::open will build them
ShimInit == InitDriver /\ probe = NoProbe /\ shim = Handle(FALSE)

\* keypad_init on a handle without driver: Keypad::open succeeds and the
\* driver is stored (returns 1), or fails, "Keypad open error" is printed and
\* the handle stays as it was (returns 0)
keypad_init ==
  /\ ~shim.init
  /\ \E ok \in BOOLEAN :
       shim' = IF ok THEN [shim EXCEPT !.init = TRUE]
                     ELSE [shim EXCEPT !.diag = "Keypad open error"]
  /\ UNCHANGED << driver, pc, locals, result, calls, ghost, probe >>

\* keypad_run: drv.scan() step by step when there is a driver (an Err result
\* is what "Keypad scan error" reports), else "Keypad not initialized" is
\* printed and the call returns
keypad_run(t) ==
  IF shim.init
    THEN ScanStep(t)
    ELSE /\ shim' = [shim EXCEPT !.diag = "Keypad not initialized"]
         /\ UNCHANGED << driver, pc, locals, result, calls, ghost, probe >>

\* keypad_set_lock: drv.set_lock(lock) when there is a driver, else nothing
keypad_set_lock(lock) == IF shim.init THEN SetLock(lock) ELSE UNCHANGED vars

\* a faulty keypad_get_lock: the lock state is read whether or not there is a
\* driver
get_lock_unchecked == lock_state

\* what keypad_get_lock returns: drv.get_lock() when there is a driver, else
\* Lock::Locked
get_lock == IF shim.init THEN lock_state ELSE "Locked"

\* keypad_get_lock
keypad_get_lock ==
  /\ shim' = [shim EXCEPT !.got = get_lock]
  /\ UNCHANGED << driver, pc, locals, result, calls, ghost, probe >>

\* keypad_set_on_pressed: drv.set_on_pressed(..) when there is a driver, else
\* nothing
keypad_set_on_pressed(cb) == IF shim.init THEN SetOnPressed(cb) ELSE UNCHANGED vars

\* keypad_set_on_released: drv.set_on_released(..) when there is a driver, else
\* nothing
keypad_set_on_released(cb) == IF shim.init THEN SetOnReleased(cb) ELSE UNCHANGED vars

ShimNext ==
  \/ keypad_init
  \/ \E t \in RunThreads : keypad_run(t)
  \/ \E lock \in Locks : keypad_set_lock(lock)
  \/ keypad_get_lock
  \/ \E cb \in Callbacks : keypad_set_on_pressed(cb)
  \/ \E cb \in Callbacks : keypad_set_on_released(cb)

ShimSpec == ShimInit /\ [][ShimNext]_vars

\* ------------------------------------------------- the pure functions

\* the indices handed to translate: the table's own and one past each end
ProbePads == 0 .. NumPads
ProbeRows == 0 .. NumRows
ProbeColumns == 0 .. NumCols

ProbeInputs ==
  { [NoProbe EXCEPT !.fn = "is_locked", !.lock = l, !.sym = s] :
      l \in Locks, s \in Symbols }
  \cup { [NoProbe EXCEPT !.fn = "is_power", !.sym = s] : s \in Symbols }
  \cup { [NoProbe EXCEPT !.fn = "translate", !.pad = p, !.row = r, !.column = c] :
      p \in ProbePads, r \in ProbeRows, c \in ProbeColumns }
  \cup { [NoProbe EXCEPT !.fn = "line", !.line = k, !.input = i] :
      k \in 0 .. NumLines - 1, i \in 0 .. NumInputs - 1 }

PureInit == InitDriver /\ probe \in ProbeInputs /\ shim = Handle(TRUE)

\* is_locked applied to (lock, sym)
ApplyIsLocked ==
  /\ probe.fn = "is_locked" /\ ~probe.done
  /\ probe' = [probe EXCEPT !.done = TRUE, !.flag = is_locked(probe.lock, probe.sym)]
  /\ UNCHANGED << driver, pc, locals, result, calls, ghost, shim >>

\* Symbol::is_power applied to sym
ApplyIsPower ==
  /\ probe.fn = "is_power" /\ ~probe.done
  /\ probe' = [probe EXCEPT !.done = TRUE, !.flag = is_power(probe.sym)]
  /\ UNCHANGED << driver, pc, locals, result, calls, ghost, shim >>

\* translate applied to (pad, row, column): a symbol, or the panic of an
\* out-of-range index
ApplyTranslate ==
  /\ probe.fn = "translate" /\ ~probe.done
  /\ LET out == translate(probe.pad, probe.row, probe.column)
     IN  probe' = IF out = OutOfRange
                    THEN [probe EXCEPT !.done = TRUE, !.panic = TRUE]
                    ELSE [probe EXCEPT !.done = TRUE, !.val = out]
  /\ UNCHANGED << driver, pc, locals, result, calls, ghost, shim >>

\* the key scan() examines at input i of drive line scanrow: the mask it
\* drives, (pad, row) = ROWS[scanrow], idx = COLS[i], and the symbol of
\* matrix[pad][row][idx], or the panic of an out-of-range index
KeyAt(k, i) == << ROWS[k + 1][1], ROWS[k + 1][2], COLS[i + 1] >>

ApplyLine ==
  /\ probe.fn = "line" /\ ~probe.done
  /\ LET key == KeyAt(probe.line, probe.input)
         out == translate(key[1], key[2], key[3])
         at == [probe EXCEPT !.done = TRUE, !.mask = Mask(probe.line),
                             !.pad = key[1], !.row = key[2], !.column = key[3]]
     IN  probe' = IF out = OutOfRange
                    THEN [at EXCEPT !.panic = TRUE]
                    ELSE [at EXCEPT !.val = out]
  /\ UNCHANGED << driver, pc, locals, result, calls, ghost, shim >>

PureNext == ApplyIsLocked \/ ApplyIsPower \/ ApplyTranslate \/ ApplyLine

PureSpec == PureInit /\ [][PureNext]_vars

\* ------------------------------------------------------------ properties

\* the thread is inside scan() holding the bus: it may access the bus
BusAccess(t) == pc[t] \in BusPcs

\* the thread's scan() call is over: returned, or unwound by a panic
CallOver(t) == pc[t] \in {"idle", "panicked"} /\ result[t] # "none"

\* the call ended the way scan() is specified to end: by an observed stop
\* request (Ok) or by a bus error (Err)
EndedByStopOrError(t) == result[t] \in {"ok", "err"}

\* the latch of the key carrying sym, in the thread's matrix
SymLatched(t, sym) ==
  \E p \in 0 .. NumPads - 1, r \in 0 .. NumRows - 1, c \in 0 .. NumCols - 1 :
    translate(p, r, c) = sym /\ matrix[t][p][r][c]

\* the events of one kind dispatched for sym by thread t
EventsOf(t, kind, sym) ==
  { i \in 1 .. Len(events) :
      events[i].by = t /\ events[i].kind = kind /\ events[i].sym = sym }

\* the power symbol, b'J'
PowerSymbol == 74

\* C1 as claimed: from the moment stop() returns, a thread that has called
\* scan() performs no bus access until it calls scan() again.
C1_NoBusAccessUntilNextCall ==
  \A t \in Scanners : quietCall[t] => ~BusAccess(t)

\* C1 amended: stop() holds the bus exclusion alone, so it returns only when
\* no scan loop holds the bus, and from then on a scanning thread performs no
\* bus access until a scan() call of its own acquires the exclusion anew.
C1_StopReturnsAfterScanExit ==
  /\ pc[Stopper] = "drop" => \A t \in Scanners : ~BusAccess(t)
  /\ \A t \in Scanners : quietAcq[t] => ~BusAccess(t)

\* C1 witness: stop was requested while a scan held the bus, that scan
\* returned, stop() returned after it, and the thread has not scanned since.
C1_Witness ==
  /\ result[Stopper] = "ok"
  /\ \E t \in Scanners :
       stopAt[t].at # "none" /\ result[t] = "ok" /\ quietAcq[t] /\ quietCall[t]

\* C2 as claimed: a stop request made at any point after scan() was entered
\* is never lost (while stop() waits for a scan that holds the bus, the flag
\* it set is still there for the loop to observe) and stop() ends by
\* returning.
C2_StopRequestNeverLost ==
  /\ (pc[Stopper] = "lock" /\ \E t \in Scanners : BusAccess(t)) => stop
  /\ pc[Stopper] # "panicked"

\* C3 as claimed: once the stop flag has been set during the iteration for
\* line k, the flag is read before any later line is driven and scan()
\* returns: the call ends, and ends by returning.
C3_StopSeenBeforeNextLine ==
  \A t \in Scanners :
    (stopAt[t].at = "line" /\ CallOver(t)) => EndedByStopOrError(t)

\* C4 as claimed: every press event is followed by exactly one release event
\* for the same key once the key reads not-pressed; a scan call that no stop
\* request and no bus error ended has dispatched as many releases as presses
\* for every key.
C4_PressThenRelease ==
  \A t \in Scanners, sym \in Symbols :
    (CallOver(t) /\ ~EndedByStopOrError(t)) =>
      Cardinality(EventsOf(t, "press", sym)) = Cardinality(EventsOf(t, "release", sym))

\* C5 as claimed: a key whose press was refused under Locked and that is
\* still read while the lock is Unlocked is latched (and its press fired) by
\* the next iteration of its line; the scan goes on to that iteration unless
\* a stop request or a bus error ends it.
C5_BlockedPressFiresAfterUnlock ==
  \A t \in Scanners, sym \in Symbols :
    (sym \in blocked[t] /\ lock_state = "Unlocked" /\ CallOver(t)
       /\ ~EndedByStopOrError(t)) => SymLatched(t, sym)

\* C6 as claimed: whatever the lock state, a latched key is read again and
\* its release is latched and dispatched; no scan call ends with a key still
\* latched unless a stop request or a bus error ended it.
C6_LatchedKeyReleased ==
  \A t \in Scanners, sym \in Symbols, lock \in Locks :
    (lock_state = lock /\ SymLatched(t, sym) /\ CallOver(t)) => EndedByStopOrError(t)

\* C7 as claimed: under UnlockedPowerOnly a press of the power key is latched
\* and fires; a scan call that reads every column as pressed under
\* UnlockedPowerOnly and is ended by neither a stop request nor a bus error
\* has latched the power key.
C7_PowerKeyFires ==
  \A t \in Scanners :
    (lock_state = "UnlockedPowerOnly" /\ CallOver(t) /\ ~EndedByStopOrError(t)
       /\ \A i \in 0 .. NumInputs - 1 : Input(byte[t], i))
      => SymLatched(t, PowerSymbol)

\* C8 as claimed: every (pad, row, column) the scan loop derives from ROWS and
\* COLS is a valid index into the matrix and the layout table, so no scan
\* pass fails on an out-of-range index.
C8_IndicesInRange ==
  \A t \in Scanners :
    /\ pc[t] = "col" => InRange(LinePad(t), LineRow(t), ColumnIdx(t))
    /\ result[t] # "oob"

\* C9: is_locked matches the truth table for every symbol and lock state:
\* Locked blocks all, UnlockedPowerOnly blocks all but the power symbol,
\* Unlocked blocks none.
C9_LockTruthTable ==
  (probe.fn = "is_locked" /\ probe.done) =>
    probe.flag = CASE probe.lock = "Locked" -> TRUE
                   [] probe.lock = "UnlockedPowerOnly" -> probe.sym # PowerSymbol
                   [] probe.lock = "Unlocked" -> FALSE

\* C9 witness: is_locked was applied to the power symbol under
\* UnlockedPowerOnly and let it through.
C9_Witness ==
  /\ probe.fn = "is_locked" /\ probe.done
  /\ probe.lock = "UnlockedPowerOnly" /\ probe.sym = PowerSymbol /\ ~probe.flag

\* the symbols of the two pads: 'A'..'L', and '1'..'9', '*', '0', '#'
PadSymbols(pad) == IF pad = 0 THEN 65 .. 76 ELSE (49 .. 57) \cup {42, 48, 35}

\* C10: translate is total and injective over the 24 in-range triples, its
\* image is exactly 'A'..'L' on pad 0 and '1'..'9','*','0','#' on pad 1, and
\* exactly one of the 24 symbols is the power key.
C10_TranslateInjective ==
  /\ (probe.fn = "translate" /\ probe.done
        /\ InRange(probe.pad, probe.row, probe.column)) =>
       /\ ~probe.panic
       /\ probe.val \in PadSymbols(probe.pad)
       /\ \A p \in 0 .. NumPads - 1, r \in 0 .. NumRows - 1, c \in 0 .. NumCols - 1 :
            translate(p, r, c) = probe.val =>
              << p, r, c >> = << probe.pad, probe.row, probe.column >>
  /\ \A p \in 0 .. NumPads - 1 :
       { translate(p, r, c) : r \in 0 .. NumRows - 1, c \in 0 .. NumCols - 1 }
         = PadSymbols(p)
  /\ (probe.fn = "is_power" /\ probe.done) => (probe.flag <=> probe.sym = PowerSymbol)
  /\ Cardinality({ s \in Symbols : is_power(s) }) = 1

\* C10 witness: translate was applied to the last key of the digit pad and
\* gave '#'.
C10_Witness ==
  /\ probe.fn = "translate" /\ probe.done /\ ~probe.panic
  /\ << probe.pad, probe.row, probe.column >> = << 1, 3, 2 >>
  /\ probe.val = 35

\* C11: every dispatch goes to the callback installed in the slot at the
\* moment of the dispatch: a step that delivers an event delivers it to the
\* callback that on_pressed (for a press) or on_released (for a release) holds
\* in the state the step starts from, so a callback replaced by a set call
\* that has returned receives no later event, and the replacement receives the
\* very next one.
C11_DispatchUsesInstalledCallback ==
  [][Len(events') > Len(events) =>
       LET e == events'[Len(events')]
       IN  /\ Len(events') = Len(events) + 1
           /\ e.cb = IF e.kind = "press" THEN on_pressed ELSE on_released]_vars

\* one scan() call has delivered a press to cbA and, the callback having been
\* replaced meanwhile, the next press to cbB
C11_Witness ==
  \E t \in Scanners :
    /\ calls[t] = 1
    /\ Len(events) = 2
    /\ events[1] = Event("press", 54, "cbA", t)
    /\ events[2] = Event("press", 53, "cbB", t)

\* C12: a bus failure aborts scan() at once with an error.  A scanning thread
\* whose call ended with Err is out of scan() and holds no bus guard; the
\* failing step itself releases the guard, performs no further bus
\* operation and dispatches nothing; and after the error the thread does
\* nothing on its own: its only next step is a new scan() call by the host.
C12_BusErrorAborts ==
  /\ [](\A t \in Scanners :
          result[t] = "err" => pc[t] = "idle" /\ devOwner # t /\ ~BusAccess(t))
  /\ [][\A t \in Scanners :
          /\ (result[t] # "err" /\ result'[t] = "err") =>
                /\ BusAccess(t) /\ devOwner = t
                /\ pc'[t] = "idle" /\ devOwner' = NoThread
                /\ events' = events
          /\ (result[t] = "err" /\ pc'[t] # pc[t]) =>
                /\ calls'[t] = calls[t] + 1
                /\ result'[t] = "none"]_vars

\* a call ended with a bus error inside a drive line's iteration (the stop
\* request arrived while it was there), and the other scanning thread has
\* taken the bus since
C12_Witness ==
  \E t \in Scanners, u \in Scanners :
    /\ t # u
    /\ result[t] = "err" /\ pc[t] = "idle"
    /\ stopAt[t].at = "line"
    /\ devOwner = u /\ BusAccess(u)

\* the positions of scan() before the loop, in program order, and what
\* follows the last of them
PrimingPcs == << "lock", "clear", "P1", "P2", "P3", "P4", "P5", "check" >>

\* no key of the thread's matrix is latched
NoLatch(t) ==
  \A p \in 0 .. NumPads - 1, r \in 0 .. NumRows - 1, c \in 0 .. NumCols - 1 :
    ~matrix[t][p][r][c]

\* C13: every scan() call starts with all 24 latches false and runs the full
\* priming before its first drive-line iteration.  From the call's entry up
\* to the loop head no latch is set, whatever earlier calls left behind; the
\* call moves through the lock, the clearing of the stop flag and the five
\* priming writes one after the other, leaving that sequence only by a bus
\* error or a panic; and a line is driven only from the loop head.
C13_FreshMatrixAndPriming ==
  /\ [](\A t \in Scanners :
          (\E k \in 1 .. Len(PrimingPcs) : pc[t] = PrimingPcs[k]) => NoLatch(t))
  /\ [][\A t \in Scanners :
          /\ \A k \in 1 .. Len(PrimingPcs) - 1 :
                (pc[t] = PrimingPcs[k] /\ pc'[t] # pc[t]) =>
                   \/ pc'[t] = PrimingPcs[k + 1]
                   \/ pc'[t] = "idle" /\ result'[t] = "err"
                   \/ pc'[t] = "panicked"
          /\ (pc[t] = "idle" /\ pc'[t] # "idle") => pc'[t] = "lock"
          /\ (pc'[t] = "D1" /\ scanrow'[t] = 0 /\ pc[t] # "D1") => pc[t] = "check"]_vars

\* a second call of one thread has run the priming and stands at its first
\* drive line with an empty matrix
C13_Witness ==
  \E t \in Scanners :
    calls[t] = 2 /\ pc[t] = "D1" /\ scanrow[t] = 0 /\ NoLatch(t)

\* C14: at most one scan loop is active per driver.  At most one thread is
\* between the acquisition of the bus guard and its return, that thread is
\* the guard's holder, so the number of threads performing bus operations
\* never exceeds one; and a latch changes only in a step of the thread that
\* holds the guard (a new call starting from its own fresh matrix apart).
C14_OneScanLoop ==
  /\ [](/\ Cardinality({t \in Scanners : BusAccess(t)}) <= 1
        /\ \A t \in Scanners : BusAccess(t) => devOwner = t)
  /\ [][\A t \in Scanners :
          matrix'[t] # matrix[t] =>
            \/ devOwner = t /\ pc[t] = "col"
            \/ pc[t] = "idle" /\ pc'[t] = "lock"]_vars

\* one thread is inside a drive line's iteration with the guard while the
\* other has entered scan() and waits for it
C14_Witness ==
  \E t \in Scanners, u \in Scanners :
    /\ t # u
    /\ pc[t] = "col" /\ devOwner = t
    /\ pc[u] = "lock"

\* C15: on a handle whose keypad_init has not succeeded, keypad_get_lock
\* returns Locked whatever was called before, and keypad_set_lock, keypad_run,
\* keypad_set_on_pressed and keypad_set_on_released leave the handle as it is
\* and touch no bus: as long as there is no driver, every get_lock so far
\* returned Locked, no thread is inside scan(), nothing was dispatched, and
\* the lock state and the callbacks a later keypad_init will start from are
\* those of Keypad::open; keypad_run leaves only its diagnostic.
C15_UninitialisedHandle ==
  /\ [](~shim.init =>
          /\ shim.got \in {"none", "Locked"}
          /\ shim.diag \in {"none", "Keypad open error", "Keypad not initialized"}
          /\ \A t \in Scanners : ~BusAccess(t) /\ pc[t] = "idle" /\ calls[t] = 0
          /\ devOwner = NoThread
          /\ events = << >>
          /\ lock_state = "Unlocked" /\ on_pressed = None /\ on_released = None)
  /\ [][~shim.init => UNCHANGED << driver, pc, locals, result, calls, ghost >>]_vars

\* a handle without driver on which keypad_run printed its diagnostic and
\* keypad_get_lock then returned Locked
C15_Witness ==
  /\ ~shim.init
  /\ shim.diag = "Keypad not initialized"
  /\ shim.got = "Locked"

\* C16: one pass examines each of the 24 keys exactly once.  For every drive
\* line k and input i: the mask driven has exactly bit k clear; the key
\* addressed, matrix[pad][row][idx] with (pad, row) = ROWS[k] and idx =
\* COLS[i], is one of the 24 keys of the matrix and translates to a Symbol; no
\* other (line, input) of the pass addresses the same key; and every one of
\* the 24 Symbols is the symbol of some (line, input).
C16_EveryKeyExaminedOnce ==
  (probe.fn = "line" /\ probe.done) =>
    /\ \A b \in 0 .. 7 : BitClear(probe.mask, b) <=> b = probe.line
    /\ ~probe.panic
    /\ InRange(probe.pad, probe.row, probe.column)
    /\ probe.val \in Symbols
    /\ \A k \in 0 .. NumLines - 1, i \in 0 .. NumInputs - 1 :
          KeyAt(k, i) = KeyAt(probe.line, probe.input) =>
            k = probe.line /\ i = probe.input
    /\ \A sym \in Symbols :
          \E k \in 0 .. NumLines - 1, i \in 0 .. NumInputs - 1 :
            translate(KeyAt(k, i)[1], KeyAt(k, i)[2], KeyAt(k, i)[3]) = sym

\* C17 as claimed: latching does not depend on a callback being installed.
\* A press that the gate lets through is latched before the press slot is
\* looked at; and a key latched by a call that ran with no callback installed
\* and delivered nothing is unlatched again when it reads not-pressed, so
\* such a call, unless a stop request or a bus error ended it, ends with no
\* latch set.
C17_LatchWithoutCallback ==
  \A t \in Scanners :
    /\ pc[t] = "cbP" => SymLatched(t, chr[t])
    /\ (CallOver(t) /\ ~EndedByStopOrError(t) /\ events = << >>
          /\ on_pressed = None /\ on_released = None) => NoLatch(t)

\* C18: within one scan() call the latch of a key is set only by an accepted
\* press and cleared only by a release of the latched key, so its transitions
\* alternate, starting with a press.  A latch is set only in a step that
\* reads the key pressed while the gate is open for its symbol, and that step
\* goes on to the press dispatch; it is cleared only in a step that reads the
\* latched key not-pressed and goes on to the release dispatch; an event is
\* delivered only from those two positions, a press with the latch set and a
\* release with it cleared; and a step in which the gate refuses a press
\* changes no latch and leads to no dispatch.
C18_LatchTransitions ==
  [][\A t \in Scanners :
       /\ matrix'[t] # matrix[t] =>
            \A p \in 0 .. NumPads - 1, r \in 0 .. NumRows - 1, c \in 0 .. NumCols - 1 :
              LET sym == LAYOUT[p + 1][r + 1][c + 1]
              IN  /\ (~matrix[t][p][r][c] /\ matrix'[t][p][r][c]) =>
                        /\ pc[t] = "col" /\ pc'[t] = "cbP" /\ chr'[t] = sym
                        /\ Input(byte[t], col[t])
                        /\ lock_state # "Locked"
                        /\ lock_state = "UnlockedPowerOnly" => sym = PowerSymbol
                  /\ (matrix[t][p][r][c] /\ ~matrix'[t][p][r][c]) =>
                        \/ /\ pc[t] = "col" /\ pc'[t] = "cbR" /\ chr'[t] = sym
                           /\ ~Input(byte[t], col[t])
                        \/ pc[t] = "idle" /\ pc'[t] = "lock"
       /\ (Len(events') > Len(events) /\ events'[Len(events')].by = t) =>
            LET e == events'[Len(events')]
            IN  /\ e.sym = chr[t]
                /\ e.kind = "press" => pc[t] = "cbP" /\ SymLatched(t, e.sym)
                /\ e.kind = "release" => pc[t] = "cbR" /\ ~SymLatched(t, e.sym)
       /\ blocked'[t] \notin {blocked[t], {}} =>
            /\ matrix'[t] = matrix[t]
            /\ events' = events
            /\ pc'[t] \notin {"cbP", "cbR"}]_vars

\* a press was refused by the gate: the scan has moved on with no latch set
\* and nothing delivered
C18_Witness ==
  \E t \in Scanners :
    /\ blocked[t] # {}
    /\ NoLatch(t)
    /\ events = << >>
    /\ on_pressed # None
    /\ pc[t] = "col" /\ col[t] > 0

\* C19 as claimed: scan() returns with keys still latched, and the next
\* scan() call, starting from an empty matrix, dispatches a fresh press for a
\* key still held: a call that has delivered a press and is over has
\* returned, and the bus mutex is fit for the next call.
C19_ReturnsWithKeysLatched ==
  \A t \in Scanners, sym \in Symbols :
    (CallOver(t) /\ EventsOf(t, "press", sym) # {}) =>
      pc[t] = "idle" /\ ~devPoisoned

\* C20: while a callback runs, the scanning thread holds the bus guard and
\* the guard of the slot the callback came from.  A callback that calls
\* stop() on the driver stays inside that call for ever, and so does one that
\* calls the set function of its own slot: the thread takes no further step;
\* set_lock, which takes no lock, can always be called and return.
C20_CallbackHoldsBothLocks ==
  /\ [](\A t \in Scanners :
          pc[t] \in CallbackPcs =>
            /\ devOwner = t
            /\ \E k \in Kinds : slotOwner[k] = t
            /\ events # << >>
            /\ slotOwner[events[Len(events)].kind] = t
            /\ pc[t] = "incb" => \A lock \in Locks : ENABLED SetLock(lock))
  /\ [][\A t \in Scanners :
          /\ pc[t] = "in_stop" => pc'[t] = "in_stop" /\ devOwner' = t
          /\ (pc[t] = "in_setP" /\ slotOwner["press"] = t) => pc'[t] = "in_setP"
          /\ (pc[t] = "in_setR" /\ slotOwner["release"] = t) => pc'[t] = "in_setR"]_vars

\* a press callback has called stop(): the flag is set and the thread waits
\* for the bus guard it holds itself
C20_Witness ==
  \E t \in Scanners :
    /\ pc[t] = "in_stop" /\ stop
    /\ devOwner = t /\ slotOwner["press"] = t

====
